---- MODULE Spec2Model ----
(***************************************************************************)
(* Model of the escape-sequence formatters of escapes.go.                  *)
(*                                                                         *)
(* A string is a sequence of one-byte tokens: "ESC" is byte 0x1B, "BEL" is *)
(* byte 0x07, every other token is the printable byte it shows.            *)
(* Go's int is modelled as a two's-complement integer of IntBits bits, so  *)
(* that x+1 and -x wrap exactly as they do in the program.                 *)
(* One behaviour is one call: fn = "" before the call, afterwards fn names *)
(* the function, args holds its arguments and ret its return value.        *)
(***************************************************************************)
EXTENDS Integers, Sequences, FiniteSets

VARIABLES fn, args, ret

vars == <<fn, args, ret>>

\* ---- bounds ----
IntBits == 8
MaxImgLen == 3
MaxStrLen == 2

\* ---- machine integers ----
IntModulus == 2 ^ IntBits
MaxInt == 2 ^ (IntBits - 1) - 1
MinInt == -(2 ^ (IntBits - 1))
Int_ == MinInt .. MaxInt

\* the value an int expression has after two's-complement wrap-around
Wrap(v) == ((v - MinInt) % IntModulus) + MinInt

\* x + 1 on int
Inc(x) == Wrap(x + 1)

\* -x on int
Neg(x) == Wrap(-x)

\* ---- strconv.Itoa ----
DigitChars == <<"0", "1", "2", "3", "4", "5", "6", "7", "8", "9">>

RECURSIVE formatBits(_)
formatBits(u) ==
    IF u < 10 THEN <<DigitChars[u + 1]>>
    ELSE formatBits(u \div 10) \o <<DigitChars[(u % 10) + 1]>>

\* base 10: a leading "-" for a negative value, then the digits of the
\* magnitude taken as an unsigned number
Itoa(i) == IF i < 0 THEN <<"-">> \o formatBits(-i) ELSE formatBits(i)

\* ---- common fragments ----
Esc == <<"ESC", "[">>
Osc == <<"ESC", "]">>
Bel == <<"BEL">>

\* ---- cursor and scroll ----
CursorPosX(x) == Esc \o Itoa(Inc(x)) \o <<"G">>

CursorPosY(y) == Esc \o Itoa(Inc(y)) \o <<"d">>

\* the position function emitting the column before the row
CursorPosColumnFirst(x, y) ==
    Esc \o Itoa(Inc(x)) \o <<";">> \o Itoa(Inc(y)) \o <<"H">>

CursorPos(x, y) == Esc \o Itoa(Inc(y)) \o <<";">> \o Itoa(Inc(x)) \o <<"H">>

\* the relative move emitting the vertical component first
CursorMoveVerticalFirst(x, y) ==
    LET s0 == IF y < 0 THEN Esc \o Itoa(Neg(y)) \o <<"A">>
              ELSE IF y > 0 THEN Esc \o Itoa(y) \o <<"B">>
              ELSE <<>>
    IN  IF x < 0 THEN s0 \o Esc \o Itoa(Neg(x)) \o <<"D">>
        ELSE IF x > 0 THEN s0 \o Esc \o Itoa(x) \o <<"C">>
        ELSE s0

CursorMove(x, y) ==
    LET s0 == IF x < 0 THEN Esc \o Itoa(Neg(x)) \o <<"D">>
              ELSE IF x > 0 THEN Esc \o Itoa(x) \o <<"C">>
              ELSE <<>>
    IN  IF y < 0 THEN s0 \o Esc \o Itoa(Neg(y)) \o <<"A">>
        ELSE IF y > 0 THEN s0 \o Esc \o Itoa(y) \o <<"B">>
        ELSE s0

\* the scroll function without its zero case
ScrollNoZeroCase(n) ==
    IF n >= 0 THEN Esc \o Itoa(n) \o <<"S">>
    ELSE Esc \o Itoa(Neg(n)) \o <<"T">>

Scroll(n) ==
    IF n > 0 THEN Esc \o Itoa(n) \o <<"S">>
    ELSE IF n < 0 THEN Esc \o Itoa(Neg(n)) \o <<"T">>
    ELSE <<>>

\* ---- text edit ----
TextInsertChars(n) == Esc \o Itoa(n) \o <<"@">>

TextDeleteChars(n) == Esc \o Itoa(n) \o <<"P">>

\* the erase function formatting the magnitude of its count
TextEraseCharsMagnitude(n) ==
    Esc \o Itoa(IF n < 0 THEN Neg(n) ELSE n) \o <<"X">>

TextEraseChars(n) == Esc \o Itoa(n) \o <<"X">>

TextInsertLines(n) == Esc \o Itoa(n) \o <<"L">>

TextDeleteLines(n) == Esc \o Itoa(n) \o <<"M">>

\* ---- hyperlink ----
\* the hyperlink function with an unterminated closing envelope
LinkUnterminated(url, text) ==
    Osc \o <<"8", ";", ";">> \o url \o Bel \o text \o Osc \o <<"8", ";", ";">>

Link(url, text) ==
    Osc \o <<"8", ";", ";">> \o url \o Bel \o text \o Osc \o <<"8", ";", ";">> \o Bel

\* ---- encoding/base64 ----
encodeStd ==
    <<"A", "B", "C", "D", "E", "F", "G", "H", "I", "J", "K", "L", "M",
      "N", "O", "P", "Q", "R", "S", "T", "U", "V", "W", "X", "Y", "Z",
      "a", "b", "c", "d", "e", "f", "g", "h", "i", "j", "k", "l", "m",
      "n", "o", "p", "q", "r", "s", "t", "u", "v", "w", "x", "y", "z",
      "0", "1", "2", "3", "4", "5", "6", "7", "8", "9", "+", "/">>

encodeURL ==
    <<"A", "B", "C", "D", "E", "F", "G", "H", "I", "J", "K", "L", "M",
      "N", "O", "P", "Q", "R", "S", "T", "U", "V", "W", "X", "Y", "Z",
      "a", "b", "c", "d", "e", "f", "g", "h", "i", "j", "k", "l", "m",
      "n", "o", "p", "q", "r", "s", "t", "u", "v", "w", "x", "y", "z",
      "0", "1", "2", "3", "4", "5", "6", "7", "8", "9", "-", "_">>

\* the four characters of a full three-byte group
EncodeGroup(alphabet, b1, b2, b3) ==
    LET val == b1 * 65536 + b2 * 256 + b3
    IN  << alphabet[((val \div 262144) % 64) + 1],
           alphabet[((val \div 4096) % 64) + 1],
           alphabet[((val \div 64) % 64) + 1],
           alphabet[(val % 64) + 1] >>

\* Encoding.EncodeToString: full groups first, then the one or two bytes
\* that remain, padded with "=" when the encoding pads
RECURSIVE Encode(_, _, _)
Encode(alphabet, pad, src) ==
    IF Len(src) = 0 THEN <<>>
    ELSE IF Len(src) >= 3
    THEN EncodeGroup(alphabet, src[1], src[2], src[3])
            \o Encode(alphabet, pad, SubSeq(src, 4, Len(src)))
    ELSE LET val == src[1] * 65536 + (IF Len(src) = 2 THEN src[2] * 256 ELSE 0)
             c1 == alphabet[((val \div 262144) % 64) + 1]
             c2 == alphabet[((val \div 4096) % 64) + 1]
             c3 == alphabet[((val \div 64) % 64) + 1]
         IN  IF Len(src) = 2
             THEN <<c1, c2, c3>> \o (IF pad THEN <<"=">> ELSE <<>>)
             ELSE <<c1, c2>> \o (IF pad THEN <<"=", "=">> ELSE <<>>)

\* base64.StdEncoding.EncodeToString
StdEncodeToString(src) == Encode(encodeStd, TRUE, src)

\* ---- inline image ----
FileInline == <<"1", "3", "3", "7", ";", "F", "i", "l", "e", "=", "i", "n", "l", "i", "n", "e", "=", "1">>

\* the image function with each size argument feeding the field of its own name
ImageWidthHeightUncrossed(img, height, width, preserveAspectRatio) ==
    LET s0 == Osc \o FileInline
        s1 == IF width > 0 THEN s0 \o <<";", "w", "i", "d", "t", "h", "=">> \o Itoa(width) ELSE s0
        s2 == IF height > 0 THEN s1 \o <<";", "h", "e", "i", "g", "h", "t", "=">> \o Itoa(height) ELSE s1
        s3 == IF ~preserveAspectRatio THEN s2 \o <<";", "p", "r", "e", "s", "e", "r", "v", "e", "A", "s", "p", "e", "c", "t", "R", "a", "t", "i", "o", "=", "0">> ELSE s2
    IN  s3 \o <<":">> \o StdEncodeToString(img) \o Bel

\* the image function encoding the payload with the URL-safe alphabet
ImageWidthHeightURL(img, height, width, preserveAspectRatio) ==
    LET s0 == Osc \o FileInline
        s1 == IF height > 0 THEN s0 \o <<";", "w", "i", "d", "t", "h", "=">> \o Itoa(height) ELSE s0
        s2 == IF width > 0 THEN s1 \o <<";", "h", "e", "i", "g", "h", "t", "=">> \o Itoa(width) ELSE s1
        s3 == IF ~preserveAspectRatio THEN s2 \o <<";", "p", "r", "e", "s", "e", "r", "v", "e", "A", "s", "p", "e", "c", "t", "R", "a", "t", "i", "o", "=", "0">> ELSE s2
    IN  s3 \o <<":">> \o Encode(encodeURL, TRUE, img) \o Bel

ImageWidthHeight(img, height, width, preserveAspectRatio) ==
    LET s0 == Osc \o FileInline
        s1 == IF height > 0 THEN s0 \o <<";", "w", "i", "d", "t", "h", "=">> \o Itoa(height) ELSE s0
        s2 == IF width > 0 THEN s1 \o <<";", "h", "e", "i", "g", "h", "t", "=">> \o Itoa(width) ELSE s1
        s3 == IF ~preserveAspectRatio THEN s2 \o <<";", "p", "r", "e", "s", "e", "r", "v", "e", "A", "s", "p", "e", "c", "t", "R", "a", "t", "i", "o", "=", "0">> ELSE s2
    IN  s3 \o <<":">> \o StdEncodeToString(img) \o Bel

\* the simple form with aspect-ratio preservation switched off
ImageNoPreserve(img) == ImageWidthHeight(img, 0, 0, FALSE)

Image(img) == ImageWidthHeight(img, 0, 0, TRUE)

\* ---- inputs ----
RECURSIVE SeqsUpTo(_, _)
SeqsUpTo(S, n) ==
    IF n = 0 THEN {<<>>}
    ELSE LET shorter == SeqsUpTo(S, n - 1)
         IN  shorter \cup {Append(s, e) : s \in shorter, e \in S}

ByteSamples == {0, 97, 251, 255}
Imgs == SeqsUpTo(ByteSamples, MaxImgLen)

DimSamples == {MinInt, -1, 0, 1, 10, 20, MaxInt}

CharSamples == {"a", ";", "BEL", "ESC"}
Strings == SeqsUpTo(CharSamples, MaxStrLen)

\* ---- one call ----
Init ==
    /\ fn = ""
    /\ args = <<>>
    /\ ret = <<>>

CallCursorPosX ==
    /\ fn = ""
    /\ \E n \in Int_ :
        /\ fn' = "CursorPosX"
        /\ args' = <<n>>
        /\ ret' = CursorPosX(n)

CallCursorPosY ==
    /\ fn = ""
    /\ \E n \in Int_ :
        /\ fn' = "CursorPosY"
        /\ args' = <<n>>
        /\ ret' = CursorPosY(n)

CallCursorPos ==
    /\ fn = ""
    /\ \E x \in Int_, y \in Int_ :
        /\ fn' = "CursorPos"
        /\ args' = <<x, y>>
        /\ ret' = CursorPos(x, y)

CallCursorMove ==
    /\ fn = ""
    /\ \E x \in Int_, y \in Int_ :
        /\ fn' = "CursorMove"
        /\ args' = <<x, y>>
        /\ ret' = CursorMove(x, y)

CallScroll ==
    /\ fn = ""
    /\ \E n \in Int_ :
        /\ fn' = "Scroll"
        /\ args' = <<n>>
        /\ ret' = Scroll(n)

CallTextInsertChars ==
    /\ fn = ""
    /\ \E n \in Int_ :
        /\ fn' = "TextInsertChars"
        /\ args' = <<n>>
        /\ ret' = TextInsertChars(n)

CallTextDeleteChars ==
    /\ fn = ""
    /\ \E n \in Int_ :
        /\ fn' = "TextDeleteChars"
        /\ args' = <<n>>
        /\ ret' = TextDeleteChars(n)

CallTextEraseChars ==
    /\ fn = ""
    /\ \E n \in Int_ :
        /\ fn' = "TextEraseChars"
        /\ args' = <<n>>
        /\ ret' = TextEraseChars(n)

CallTextInsertLines ==
    /\ fn = ""
    /\ \E n \in Int_ :
        /\ fn' = "TextInsertLines"
        /\ args' = <<n>>
        /\ ret' = TextInsertLines(n)

CallTextDeleteLines ==
    /\ fn = ""
    /\ \E n \in Int_ :
        /\ fn' = "TextDeleteLines"
        /\ args' = <<n>>
        /\ ret' = TextDeleteLines(n)

CallLink ==
    /\ fn = ""
    /\ \E url \in Strings, text \in Strings :
        /\ fn' = "Link"
        /\ args' = <<url, text>>
        /\ ret' = Link(url, text)

CallImage ==
    /\ fn = ""
    /\ \E img \in Imgs :
        /\ fn' = "Image"
        /\ args' = <<img>>
        /\ ret' = Image(img)

CallImageWidthHeight ==
    /\ fn = ""
    /\ \E img \in Imgs, height \in DimSamples, width \in DimSamples,
          preserveAspectRatio \in BOOLEAN :
        /\ fn' = "ImageWidthHeight"
        /\ args' = <<img, height, width, preserveAspectRatio>>
        /\ ret' = ImageWidthHeight(img, height, width, preserveAspectRatio)

Next ==
    \/ CallCursorPosX
    \/ CallCursorPosY
    \/ CallCursorPos
    \/ CallCursorMove
    \/ CallScroll
    \/ CallTextInsertChars
    \/ CallTextDeleteChars
    \/ CallTextEraseChars
    \/ CallTextInsertLines
    \/ CallTextDeleteLines
    \/ CallLink
    \/ CallImage
    \/ CallImageWidthHeight

Spec == Init /\ [][Next]_vars

\* ---- reading a returned string ----
Range(s) == {s[i] : i \in 1 .. Len(s)}

DigitSet == Range(DigitChars)

DigitValue(c) == CHOOSE k \in 0 .. 9 : DigitChars[k + 1] = c

RECURSIVE DigitsValue(_)
DigitsValue(d) ==
    IF Len(d) = 0 THEN 0
    ELSE 10 * DigitsValue(SubSeq(d, 1, Len(d) - 1)) + DigitValue(d[Len(d)])

\* d is the shortest digit string of the natural number u
IsDigitsOf(d, u) ==
    /\ Len(d) >= 1
    /\ Range(d) \subseteq DigitSet
    /\ Len(d) > 1 => d[1] # "0"
    /\ DigitsValue(d) = u

\* s is the decimal representation of the integer v
IsDecimalOf(s, v) ==
    IF v < 0
    THEN Len(s) >= 2 /\ s[1] = "-" /\ IsDigitsOf(Tail(s), -v)
    ELSE IsDigitsOf(s, v)

\* s is Esc, the decimal representation of v, and the final byte
IsCsi(s, v, final) ==
    /\ Len(s) >= 4
    /\ SubSeq(s, 1, 2) = <<"ESC", "[">>
    /\ IsDecimalOf(SubSeq(s, 3, Len(s) - 1), v)
    /\ s[Len(s)] = final

\* t occurs in s as a contiguous run of bytes
Occurs(t, s) ==
    \E i \in 1 .. Len(s) - Len(t) + 1 : SubSeq(s, i, i + Len(t) - 1) = t

\* the length of the padded base64 text of n bytes
PaddedLen(n) == 4 * ((n + 2) \div 3)

StdIndex(c) == CHOOSE k \in 0 .. 63 : encodeStd[k + 1] = c

\* p is the padded standard-alphabet base64 text of the bytes b (RFC 4648
\* section 4): every group of four characters carries the bits of its three
\* bytes, and a short last group has zero trailing bits and "=" padding
IsStdBase64Of(p, b) ==
    /\ Len(p) = PaddedLen(Len(b))
    /\ \A g \in 0 .. (Len(b) \div 3) - 1 :
        /\ {p[4 * g + j] : j \in 1 .. 4} \subseteq Range(encodeStd)
        /\ StdIndex(p[4 * g + 1]) * 262144 + StdIndex(p[4 * g + 2]) * 4096
             + StdIndex(p[4 * g + 3]) * 64 + StdIndex(p[4 * g + 4])
           = b[3 * g + 1] * 65536 + b[3 * g + 2] * 256 + b[3 * g + 3]
    /\ Len(b) % 3 = 1 =>
        LET o == Len(p) - 4
            k == Len(b)
        IN  /\ {p[o + 1], p[o + 2]} \subseteq Range(encodeStd)
            /\ StdIndex(p[o + 1]) * 4 + (StdIndex(p[o + 2]) \div 16) = b[k]
            /\ StdIndex(p[o + 2]) % 16 = 0
            /\ p[o + 3] = "=" /\ p[o + 4] = "="
    /\ Len(b) % 3 = 2 =>
        LET o == Len(p) - 4
            k == Len(b) - 1
        IN  /\ {p[o + 1], p[o + 2], p[o + 3]} \subseteq Range(encodeStd)
            /\ StdIndex(p[o + 1]) * 1024 + StdIndex(p[o + 2]) * 16
                 + (StdIndex(p[o + 3]) \div 4) = b[k] * 256 + b[k + 1]
            /\ StdIndex(p[o + 3]) % 4 = 0
            /\ p[o + 4] = "="

\* ---- properties ----

\* the literal texts of the image envelope, as the terminal reads them
InlineHeader == <<"1", "3", "3", "7", ";", "F", "i", "l", "e", "=", "i", "n", "l", "i", "n", "e", "=", "1">>
WidthEq == <<";", "w", "i", "d", "t", "h", "=">>
HeightEq == <<";", "h", "e", "i", "g", "h", "t", "=">>
PreserveEq == <<";", "p", "r", "e", "s", "e", "r", "v", "e", "A", "s", "p", "e", "c", "t", "R", "a", "t", "i", "o", "=", "0">>

\* C1: CursorPos(x, y) is Esc, the decimal of y+1, ";", the decimal of x+1
\* and "H": both coordinates become 1-based (x+1 and y+1 being the program's
\* int additions) and the row, from y, comes before the column, from x.
CursorPosRowThenColumn ==
    fn = "CursorPos" =>
        \E k \in 4 .. Len(ret) - 2 :
            /\ SubSeq(ret, 1, 2) = <<"ESC", "[">>
            /\ IsDecimalOf(SubSeq(ret, 3, k - 1), Inc(args[2]))
            /\ ret[k] = ";"
            /\ IsDecimalOf(SubSeq(ret, k + 1, Len(ret) - 1), Inc(args[1]))
            /\ ret[Len(ret)] = "H"

CursorPosWitness ==
    /\ fn = "CursorPos"
    /\ args = <<2, 5>>
    /\ ret = <<"ESC", "[", "6", ";", "3", "H">>

\* the horizontal component of a relative move by x
IsHorizontal(s, x) ==
    IF x < 0 THEN IsCsi(s, Neg(x), "D")
    ELSE IF x > 0 THEN IsCsi(s, x, "C")
    ELSE s = <<>>

\* the vertical component of a relative move by y
IsVertical(s, y) ==
    IF y < 0 THEN IsCsi(s, Neg(y), "A")
    ELSE IF y > 0 THEN IsCsi(s, y, "B")
    ELSE s = <<>>

\* C2: CursorMove(x, y) is the horizontal component followed by the vertical
\* one, each present only when its argument is nonzero ("D"/"C" for x < 0 and
\* x > 0, "A"/"B" for y < 0 and y > 0, the parameter being the program's -x or
\* x); CursorMove(0, 0) is empty and no component has the parameter zero.
CursorMoveHorizontalThenVertical ==
    fn = "CursorMove" =>
        /\ \E k \in 0 .. Len(ret) :
            /\ IsHorizontal(SubSeq(ret, 1, k), args[1])
            /\ IsVertical(SubSeq(ret, k + 1, Len(ret)), args[2])
        /\ args = <<0, 0>> => ret = <<>>
        /\ ~Occurs(<<"ESC", "[", "0">>, ret)

CursorMoveWitness ==
    /\ fn = "CursorMove"
    /\ args = <<2, -4>>
    /\ ret = <<"ESC", "[", "2", "C", "ESC", "[", "4", "A">>

\* C3: Scroll(n) is Esc, the decimal of n and "S" when n > 0, Esc, the decimal
\* of the program's -n and "T" when n < 0, and the empty string when n = 0.
ScrollBySign ==
    fn = "Scroll" =>
        IF args[1] > 0 THEN IsCsi(ret, args[1], "S")
        ELSE IF args[1] < 0 THEN IsCsi(ret, Neg(args[1]), "T")
        ELSE ret = <<>>

ScrollWitness ==
    /\ fn = "Scroll"
    /\ args = <<-5>>
    /\ ret = <<"ESC", "[", "5", "T">>

\* C4: for every int input, the most negative one included, no output of
\* CursorMove or Scroll contains a minus sign.
NoMinusSignInMoveOrScroll ==
    fn \in {"CursorMove", "Scroll"} => "-" \notin Range(ret)

\* C5: CursorPosX(x) is Esc, the decimal of the mathematical successor of x
\* and "G", and CursorPosY(y) the same with "d", for every int input, the
\* largest one included.
CursorPosXYMathematicalSuccessor ==
    /\ fn = "CursorPosX" => IsCsi(ret, args[1] + 1, "G")
    /\ fn = "CursorPosY" => IsCsi(ret, args[1] + 1, "d")

\* C6: in ImageWidthHeight(img, height, width, preserveAspectRatio) the field
\* ";width=" with the decimal of height is present iff height > 0, ";height="
\* with the decimal of width iff width > 0, ";preserveAspectRatio=0" iff
\* preserveAspectRatio is false, in that order after Osc "1337;File=inline=1"
\* and before the ":" of the payload.
ImageFieldsCrossWired ==
    fn = "ImageWidthHeight" =>
        LET height == args[2]
            width == args[3]
            fields == SubSeq(ret, 21, Len(ret) - PaddedLen(Len(args[1])) - 2)
            widthField == IF height > 0 THEN WidthEq \o Itoa(height) ELSE <<>>
            heightField == IF width > 0 THEN HeightEq \o Itoa(width) ELSE <<>>
            aspectField == IF args[4] THEN <<>> ELSE PreserveEq
        IN  /\ SubSeq(ret, 1, 20) = <<"ESC", "]">> \o InlineHeader
            /\ fields = widthField \o heightField \o aspectField
            /\ Occurs(WidthEq, ret) <=> height > 0
            /\ Occurs(HeightEq, ret) <=> width > 0
            /\ Occurs(PreserveEq, ret) <=> ~args[4]

ImageFieldsWitness ==
    /\ fn = "ImageWidthHeight"
    /\ args = <<<<97>>, 10, 20, TRUE>>
    /\ ret = <<"ESC", "]">> \o InlineHeader \o WidthEq \o <<"1", "0">>
               \o HeightEq \o <<"2", "0">> \o <<":", "Y", "Q", "=", "=", "BEL">>

\* C7: Image(img) is ImageWidthHeight(img, 0, 0, true): Osc,
\* "1337;File=inline=1", ":", the base64 text of img and Bel, with no width,
\* height or preserveAspectRatio field, for the empty img too.
ImageIsPlainEnvelope ==
    fn = "Image" =>
        /\ ret = ImageWidthHeight(args[1], 0, 0, TRUE)
        /\ Len(ret) = 22 + PaddedLen(Len(args[1]))
        /\ SubSeq(ret, 1, 21) = <<"ESC", "]">> \o InlineHeader \o <<":">>
        /\ IsStdBase64Of(SubSeq(ret, 22, Len(ret) - 1), args[1])
        /\ ret[Len(ret)] = "BEL"

ImageWitness ==
    /\ fn = "Image"
    /\ args = <<<<255, 255, 255>>>>
    /\ ret = <<"ESC", "]">> \o InlineHeader \o <<":", "/", "/", "/", "/", "BEL">>

\* C8: Link(url, text) is Osc "8;;", url, Bel, text, Osc "8;;", Bel: both
\* arguments appear verbatim, also when empty or holding Bel or Esc bytes, and
\* Bel ends both the opening and the closing envelope.
LinkVerbatim ==
    fn = "Link" =>
        LET url == args[1]
            text == args[2]
            u == Len(url)
            t == Len(text)
        IN  /\ Len(ret) = u + t + 12
            /\ SubSeq(ret, 1, 5) = <<"ESC", "]", "8", ";", ";">>
            /\ SubSeq(ret, 6, 5 + u) = url
            /\ ret[6 + u] = "BEL"
            /\ SubSeq(ret, 7 + u, 6 + u + t) = text
            /\ SubSeq(ret, 7 + u + t, 12 + u + t)
                 = <<"ESC", "]", "8", ";", ";", "BEL">>

LinkWitness ==
    /\ fn = "Link"
    /\ args = <<<<"a", "BEL">>, <<"ESC">>>>
    /\ ret = <<"ESC", "]", "8", ";", ";", "a", "BEL", "BEL", "ESC",
               "ESC", "]", "8", ";", ";", "BEL">>

TextEditFinal ==
    [TextInsertChars |-> "@", TextDeleteChars |-> "P", TextEraseChars |-> "X",
     TextInsertLines |-> "L", TextDeleteLines |-> "M"]

\* C9: for any int n, zero and negative included, the five text-edit functions
\* return Esc, the decimal of n and their letter ("@", "P", "X", "L", "M"); a
\* negative n shows its minus sign and no input gives the empty string.
TextEditPassesCountThrough ==
    fn \in DOMAIN TextEditFinal =>
        /\ IsCsi(ret, args[1], TextEditFinal[fn])
        /\ args[1] < 0 => ret[3] = "-"
        /\ ret # <<>>

TextEditWitness ==
    /\ fn = "TextEraseChars"
    /\ args = <<-3>>
    /\ ret = <<"ESC", "[", "-", "3", "X">>

\* C10: the output of ImageWidthHeight ends with ":", the base64 text of img
\* and Bel, the text being the padded standard-alphabet encoding without line
\* breaks: 4*ceil(len(img)/3) characters, none for the empty img, decoding
\* back to img.
ImagePayloadIsStdBase64 ==
    fn = "ImageWidthHeight" =>
        LET img == args[1]
            n == PaddedLen(Len(img))
            payload == SubSeq(ret, Len(ret) - n, Len(ret) - 1)
        IN  /\ Len(ret) >= n + 2
            /\ ret[Len(ret) - n - 1] = ":"
            /\ ret[Len(ret)] = "BEL"
            /\ IsStdBase64Of(payload, img)
            /\ Range(payload) \subseteq Range(encodeStd) \cup {"="}
            /\ img = <<>> => payload = <<>>

ImagePayloadWitness ==
    /\ fn = "ImageWidthHeight"
    /\ args = <<<<251, 255>>, 0, 0, FALSE>>
    /\ ret = <<"ESC", "]">> \o InlineHeader \o PreserveEq
               \o <<":", "+", "/", "8", "=", "BEL">>
====
